---- MODULE Spec2Model ----
(***************************************************************************)
(* Implicit-key splay tree (src/splay.h, extended variant): a sequence     *)
(* container with rank access, split, merge, lazy range reversal, insert   *)
(* and erase.  The heap of Node objects is modelled explicitly: every node *)
(* has its two child slots, its parent back-pointer, its subtree size, its *)
(* pending-reverse flag and its payload.  Every method of the class is an  *)
(* operator on heaps translated from its body.                             *)
(***************************************************************************)
EXTENDS Integers, Sequences, FiniteSets, TLC

\* ------------------------------------------------------------------ bounds
MaxNodes == 3      \* Node objects that can be alive at the same time
MaxSteps == 3      \* public calls made after construction

\* ------------------------------------------------------------- identities
Nil == 0                        \* the empty unique_ptr / no node
NodeIds == 1..MaxNodes          \* addresses of heap-allocated Node objects
DA == -1                        \* dummy_ of the first user tree
DB == -2                        \* dummy_ of the second user tree
DT1 == -3                       \* dummy_ of a tree local to a method (right)
DT2 == -4                       \* dummy_ of a tree local to a method (center)
Trees == {DA, DB}
Dummies == {DA, DB, DT1, DT2}
Ids == Dummies \cup NodeIds
InsertVals == {9}               \* payloads offered to insert()

NoSons == [d \in 0..1 |-> Nil]

\* A heap is a record: son, dad, sz, rev, data are the fields of every Node
\* (son_, dad_, subtree_size_, reverse_, data_); f is the exception (or
\* crash) in flight, "ok" when there is none.
\*   "out_of_range"  std::out_of_range thrown by at() / reverse()
\*   "invalid_range" std::runtime_error thrown by reverse()
\*   "rotate_root"   std::runtime_error thrown by rotate()
\*   "splay_dummy"   std::runtime_error thrown by splay()
\*   "inc_end"       std::runtime_error thrown by operator++
\*   "dec_begin"     std::runtime_error thrown by operator--
\*   "ub"            a null Node* was dereferenced: the process is dead
RuntimeErrors == {"invalid_range", "rotate_root", "splay_dummy", "inc_end",
                  "dec_begin"}

Ret(h, r) == [h |-> h, r |-> r]
Throw(h, e) == [h EXCEPT !.f = e]
Caught(h) == [h EXCEPT !.f = "ok"]

\* Node::Node(T data): dad_ = this, no sons, subtree_size_ = 1, no flag.
\* A dummy_ is Node() with the default payload 0.
NewNode(h, n, x) ==
    [h EXCEPT !.son[n] = NoSons, !.dad[n] = n, !.sz[n] = 1,
              !.rev[n] = FALSE, !.data[n] = x]

\* Memory that holds no Node (dad = Nil marks it).
FreeNode(h, n) ==
    [h EXCEPT !.son[n] = NoSons, !.dad[n] = Nil, !.sz[n] = 0,
              !.rev[n] = FALSE, !.data[n] = 0]

\* ~unique_ptr<Node>: destroys the node and, through its son_ array, the
\* whole subtree it owns.
RECURSIVE DestroySubtree(_, _)
DestroySubtree(h, n) ==
    IF n = Nil THEN h
    ELSE FreeNode(DestroySubtree(DestroySubtree(h, h.son[n][0]),
                                 h.son[n][1]), n)

\* ~SplayTree of a tree local to a method: its nodes die with dummy_, and the
\* storage is ready for the next local tree.
DestroyTree(h, t) ==
    IF h.f = "ub" THEN h
    ELSE NewNode(DestroySubtree(DestroySubtree(h, h.son[t][0]), h.son[t][1]),
                 t, 0)

\* The lowest free address: the allocator's choice does not matter to the
\* container, so one canonical choice is made.
FreeIds(h) == {n \in NodeIds : h.dad[n] = Nil}
Alloc(h) == CHOOSE n \in FreeIds(h) : \A m \in FreeIds(h) : n <= m

\* ------------------------------------------------------------ Node methods
whichSon(h, n) == h.son[h.dad[n]][1] = n

leftSubtreeSize(h, n) ==
    IF h.son[n][0] # Nil THEN h.sz[h.son[n][0]] ELSE 0

SonSize(h, n, d) == IF h.son[n][d] # Nil THEN h.sz[h.son[n][d]] ELSE 0

\* updateSubtreeSize that forgets the right son.
updateSubtreeSizeNoRight(h, n) ==
    [h EXCEPT !.sz[n] = 1 + SonSize(h, n, 0)]

updateSubtreeSize(h, n) ==
    [h EXCEPT !.sz[n] = 1 + SonSize(h, n, 0) + SonSize(h, n, 1)]

push(h, n) ==
    IF h.rev[n]
    THEN [h EXCEPT !.son[n] = [d \in 0..1 |-> h.son[n][1 - d]],
                   !.rev = [m \in Ids |->
                              IF m = n THEN FALSE
                              ELSE IF m \in {h.son[n][0], h.son[n][1]}
                              THEN ~h.rev[m]
                              ELSE h.rev[m]]]
    ELSE h

\* son_[d] = c for a raw slot, and  if (c) c->dad_ = n
SetSon(h, n, d, c) == [h EXCEPT !.son[n][d] = c]
SetDad(h, c, n) == IF c # Nil THEN [h EXCEPT !.dad[c] = n] ELSE h

\* link(std::move(son), dir): the slot takes the subtree (whatever it owned
\* before is destroyed), the subtree's dad_ is set, the size recomputed.  The
\* caller's moved-from pointer is nulled by the caller's operator.
link(h, n, c, d) ==
    updateSubtreeSize(
        SetDad(SetSon(DestroySubtree(h, h.son[n][d]), n, d, c), c, n), n)

\* ------------------------------------------------------- SplayTree private
empty(h, t) == h.son[t][0] = Nil
size(h, t) == leftSubtreeSize(h, t)
root(h, t) == h.son[t][0]
isRoot(h, n) == h.dad[n] = h.dad[h.dad[n]]

\* swap that leaves the dad_ of the exchanged roots as it was.
AdoptRootSkip(h, t) == h

\* if (dummy_.son_[0]) dummy_.son_[0]->dad_ = &dummy_;
AdoptRoot(h, t) == SetDad(h, h.son[t][0], t)

swap(h, t, rhs) ==
    updateSubtreeSize(
        updateSubtreeSize(
            AdoptRoot(AdoptRoot(
                [h EXCEPT !.son[t][0] = h.son[rhs][0],
                          !.son[rhs][0] = h.son[t][0]], t), rhs),
            t),
        rhs)

\* u.son_[!dir] = std::exchange(w.son_[dad_dir], std::exchange(v.son_[dir],
\*         std::exchange(u.son_[!dir], nullptr)));   innermost call first
Exchange3(h, t2, u, w, dir, dad_dir) ==
    SetSon(SetSon(h, w, dad_dir, t2), u, 1 - dir, h.son[w][dad_dir])
Exchange2(h, t1, u, v, w, dir, dad_dir) ==
    Exchange3(SetSon(h, v, dir, t1), h.son[v][dir], u, w, dir, dad_dir)
Exchange1(h, u, v, w, dir, dad_dir) ==
    Exchange2(SetSon(h, u, 1 - dir, Nil), h.son[u][1 - dir], u, v, w, dir,
              dad_dir)

\* The tail of rotate() that forgets the dad_ of the subtree moved from u
\* to v.
ReparentNoMoved(h, u, v, w, dir) ==
    updateSubtreeSize(
        updateSubtreeSize(
            updateSubtreeSize([h EXCEPT !.dad[v] = u, !.dad[u] = w], v),
            u),
        w)

\* if (v.son_[dir]) v.son_[dir]->dad_ = &v;  v.dad_ = &u;  u.dad_ = &w;
\* then the three updateSubtreeSize() calls
Reparent(h, u, v, w, dir) ==
    updateSubtreeSize(
        updateSubtreeSize(
            updateSubtreeSize(
                [SetDad(h, h.son[v][dir], v) EXCEPT !.dad[v] = u, !.dad[u] = w],
                v),
            u),
        w)

Dir(b) == IF b THEN 1 ELSE 0

rotate(h, t, u) ==
    IF h.f # "ok" THEN h
    ELSE IF u = t \/ isRoot(h, u) THEN Throw(h, "rotate_root")
    ELSE Reparent(Exchange1(h, u, h.dad[u], h.dad[h.dad[u]],
                            Dir(whichSon(h, u)), Dir(whichSon(h, h.dad[u]))),
                  u, h.dad[u], h.dad[h.dad[u]], Dir(whichSon(h, u)))

\* A zig-zig branch that rotates the parent twice instead of v, then u.
ZigZigParentTwice(h, t, u, v) ==
    IF whichSon(h, u) = whichSon(h, v)
    THEN rotate(rotate(h, t, v), t, v)
    ELSE rotate(rotate(h, t, u), t, u)

\* The else branch of the loop of splay(), the three nodes pushed.
ZigZigOrZigZag(h, t, u, v) ==
    IF whichSon(h, u) = whichSon(h, v)
    THEN rotate(rotate(h, t, v), t, u)
    ELSE rotate(rotate(h, t, u), t, u)

\* A loop iteration of splay() that pushes no pending flag.
SplayStepNoPush(h, t, u) ==
    IF isRoot(h, h.dad[u])
    THEN rotate(h, t, u)
    ELSE ZigZigOrZigZag(h, t, u, h.dad[u])

\* One iteration of the loop of splay(): zig, zig-zig or zig-zag.
SplayStep(h, t, u) ==
    IF isRoot(h, h.dad[u])
    THEN rotate(push(push(h, h.dad[u]), u), t, u)
    ELSE ZigZigOrZigZag(push(push(push(h, h.dad[h.dad[u]]), h.dad[u]), u),
                        t, u, h.dad[u])

RECURSIVE SplayLoop(_, _, _)
SplayLoop(h, t, u) ==
    IF h.f # "ok" \/ isRoot(h, u) THEN h
    ELSE SplayLoop(SplayStep(h, t, u), t, u)

splay(h, t, u) ==
    IF h.f # "ok" THEN h
    ELSE IF u = t THEN Throw(h, "splay_dummy")
    ELSE SplayLoop(h, t, u)

\* splay(*p.node_) for a node found by a search or an iterator step
SplayFound(p, t) == splay(p.h, t, p.r)

\* Mutant of FindLoop: the rank search of the variant without lazy reversal,
\* which does not push the pending flag of the node it inspects.
RECURSIVE FindLoopNoPush(_, _, _, _)
FindLoopNoPush(h, p, cumulated, i) ==
    IF p = Nil THEN Ret(Throw(h, "ub"), Nil)
    ELSE IF cumulated + leftSubtreeSize(h, p) = i THEN Ret(h, p)
    ELSE IF i < cumulated + leftSubtreeSize(h, p)
    THEN FindLoopNoPush(h, h.son[p][0], cumulated, i)
    ELSE FindLoopNoPush(h, h.son[p][1],
                        cumulated + leftSubtreeSize(h, p) + 1, i)

\* The loop of findNode(): p == nullptr is dereferenced by p->push().
RECURSIVE FindLoop(_, _, _, _)
RECURSIVE FindPushed(_, _, _, _)
FindLoop(h, p, cumulated, i) ==
    IF p = Nil THEN Ret(Throw(h, "ub"), Nil)
    ELSE FindPushed(push(h, p), p, cumulated, i)

\* The body of the loop after p->push(); index is cumulated + the left size.
FindPushed(h, p, cumulated, i) ==
    IF cumulated + leftSubtreeSize(h, p) = i THEN Ret(h, p)
    ELSE IF i < cumulated + leftSubtreeSize(h, p)
    THEN FindLoop(h, h.son[p][0], cumulated, i)
    ELSE FindLoop(h, h.son[p][1], cumulated + leftSubtreeSize(h, p) + 1, i)

findNode(h, t, i) ==
    IF h.f # "ok" THEN Ret(h, Nil)
    ELSE FindLoop(h, root(h, t), 0, i)

\* ------------------------------------------------------------- iterators
\* while (node_->son_[d]) { node_ = node_->son_[d].get(); node_->push(); }
RECURSIVE Descend(_, _, _)
Descend(h, n, d) ==
    IF h.son[n][d] # Nil
    THEN Descend(push(h, h.son[n][d]), h.son[n][d], d)
    ELSE Ret(h, n)

\* while (node_->whichSon()) node_ = node_->dad_;
RECURSIVE AscendWhileRightSon(_, _)
AscendWhileRightSon(h, n) ==
    IF whichSon(h, n) THEN AscendWhileRightSon(h, h.dad[n]) ELSE n

\* while (!node_->whichSon()) { node_ = node_->dad_;
\*                              if (node_->dad_ == node_) throw ...; }
\* node_ = node_->dad_;
RECURSIVE AscendWhileLeftSon(_, _)
AscendWhileLeftSon(h, n) ==
    IF ~whichSon(h, n)
    THEN IF h.dad[h.dad[n]] = h.dad[n]
         THEN Ret(Throw(h, "dec_begin"), h.dad[n])
         ELSE AscendWhileLeftSon(h, h.dad[n])
    ELSE Ret(h, h.dad[n])

\* operator++ after node_->push()
IncPushed(h, n) ==
    IF h.son[n][1] # Nil
    THEN Descend(push(h, h.son[n][1]), h.son[n][1], 0)
    ELSE Ret(h, h.dad[AscendWhileRightSon(h, n)])

\* operator++ without the test for the end iterator.
IncUnchecked(h, n) ==
    IF h.f # "ok" THEN Ret(h, n) ELSE IncPushed(push(h, n), n)

\* Iterator::operator++ on an iterator whose node_ is n; r is the new node_.
Inc(h, n) ==
    IF h.f # "ok" THEN Ret(h, n)
    ELSE IF h.dad[n] = n THEN Ret(Throw(h, "inc_end"), n)
    ELSE IncPushed(push(h, n), n)

\* operator-- after node_->push()
DecPushed(h, n) ==
    IF h.son[n][0] # Nil
    THEN Descend(push(h, h.son[n][0]), h.son[n][0], 1)
    ELSE AscendWhileLeftSon(h, n)

\* Iterator::operator-- on an iterator whose node_ is n; r is the new node_
\* (also when the operator throws: node_ was already moved).
Dec(h, n) ==
    IF h.f # "ok" THEN Ret(h, n)
    ELSE DecPushed(push(h, n), n)

begin(h, t) ==
    IF h.f # "ok" THEN Ret(h, t)
    ELSE IF empty(h, t) THEN Ret(h, t)
    ELSE findNode(h, t, 0)

end(h, t) == Ret(h, t)

\* -------------------------------------------------------- SplayTree public
\* return root().data_;
RootData(h, t) ==
    IF h.f # "ok" THEN Ret(h, 0) ELSE Ret(h, h.data[root(h, t)])

\* reference at(size_type): r is the payload referred to.
at(h, t, i) ==
    IF h.f # "ok" THEN Ret(h, 0)
    ELSE IF i >= size(h, t) THEN Ret(Throw(h, "out_of_range"), 0)
    ELSE RootData(SplayFound(findNode(h, t, i), t), t)

\* return findNode(i).data_;
FoundData(p) ==
    IF p.h.f # "ok" THEN Ret(p.h, 0) ELSE Ret(p.h, p.h.data[p.r])

\* A const at() that splays like the mutable overload.
atConstSplaying(h, t, i) == at(h, t, i)

\* const_reference at(size_type) const
atConst(h, t, i) ==
    IF h.f # "ok" THEN Ret(h, 0)
    ELSE IF i >= size(h, t) THEN Ret(Throw(h, "out_of_range"), 0)
    ELSE FoundData(findNode(h, t, i))

\* root().updateSubtreeSize();
UpdateRoot(h, t) == updateSubtreeSize(h, root(h, t))

\* SplayTree<T> result;
\* result.dummy_.link(std::move(root().son_[1]), 0);
\* root().updateSubtreeSize();
DetachRight(h, t, res) ==
    IF h.f # "ok" THEN h
    ELSE IF root(h, t) = Nil
    THEN \* root() of an empty tree: *nullptr is used
         Throw(h, "ub")
    ELSE UpdateRoot(link(SetSon(h, root(h, t), 1, Nil), res,
                         h.son[root(h, t)][1], 0), t)

\* split(it) once --prev has run: prev.h.f tells whether it threw.
SplitAfter(prev, t, res) ==
    IF prev.h.f \in RuntimeErrors
    THEN \* catch (std::runtime_error): return std::move(*this);
         swap(Caught(prev.h), res, t)
    ELSE DetachRight(SplayFound(prev, t), t, res)

\* SplayTree split(const_iterator it): res is the dummy_ of the returned
\* tree (the returned object is constructed in place in the caller's tree).
split(h, t, it, res) ==
    IF h.f # "ok" THEN h
    ELSE SplitAfter(Dec(h, it), t, res)

SplitBefore(p, t, res) == split(p.h, t, p.r, res)

\* SplayTree split(size_type left_size)
splitIndex(h, t, left_size, res) ==
    SplitBefore(findNode(h, t, left_size), t, res)

\* root().link(std::move(rhs.dummy_.son_[0]), 1);
LinkRight(h, t, rhs) ==
    IF h.f # "ok" THEN h
    ELSE link(SetSon(h, rhs, 0, Nil), root(h, t), h.son[rhs][0], 1)

\* Mutant of merge: rhs is hung under the root without the receiver's last
\* element having been splayed to the root first.
mergeNoSplay(h, t, rhs) ==
    IF h.f # "ok" THEN h
    ELSE IF empty(h, t) THEN swap(h, t, rhs)
    ELSE IF empty(h, rhs) THEN h
    ELSE LinkRight(h, t, rhs)

\* void merge(SplayTree&& rhs)
merge(h, t, rhs) ==
    IF h.f # "ok" THEN h
    ELSE IF empty(h, t) THEN swap(h, t, rhs)
    ELSE IF empty(h, rhs) THEN h
    ELSE LinkRight(SplayFound(findNode(h, t, size(h, t) - 1), t), t, rhs)

reverseTree(h, t) ==
    IF h.f # "ok" THEN h
    ELSE IF ~empty(h, t) THEN [h EXCEPT !.rev[root(h, t)] = ~h.rev[root(h, t)]]
    ELSE h

\* reverse that clamps last to size() instead of reporting it.
reverseClamped(h, t, first, last) ==
    IF h.f # "ok" THEN h
    ELSE IF first > last THEN Throw(h, "invalid_range")
    ELSE reverseTree(h, t)

\* reverse that tests last > size() before first > last.
reverseBoundsFirst(h, t, first, last) ==
    IF h.f # "ok" THEN h
    ELSE IF last > size(h, t) THEN Throw(h, "out_of_range")
    ELSE IF first > last THEN Throw(h, "invalid_range")
    ELSE reverseTree(h, t)

\* void reverse(size_type first, size_type last); right and center are the
\* local trees DT1 and DT2, destroyed when the method is left.
reverse(h, t, first, last) ==
    IF h.f # "ok" THEN h
    ELSE IF first = 0 /\ last = size(h, t) THEN reverseTree(h, t)
    ELSE IF first > last THEN Throw(h, "invalid_range")
    ELSE IF last > size(h, t) THEN Throw(h, "out_of_range")
    ELSE DestroyTree(DestroyTree(
             merge(merge(reverseTree(
                             splitIndex(splitIndex(h, t, last, DT1),
                                        t, first, DT2),
                             DT2),
                         t, DT2),
                   t, DT1),
             DT2), DT1)

RECURSIVE Rightmost(_, _)
Rightmost(h, p) ==
    IF h.son[p][1] # Nil THEN Rightmost(h, h.son[p][1]) ELSE p

\* insert() once new_node is made: where it is linked, then splay(*new_node)
InsertNode(h, t, it, new_node) ==
    Ret(splay(IF h.son[it][0] = Nil
              THEN link(h, it, new_node, 0)
              ELSE link(h, Rightmost(h, h.son[it][0]), new_node, 1),
              t, new_node),
        new_node)

\* iterator insert(const_iterator it, T e); r is the node_ of the result.
insert(h, t, it, e) ==
    IF h.f # "ok" THEN Ret(h, Nil)
    ELSE InsertNode(NewNode(h, Alloc(h), e), t, it, Alloc(h))

\* if (empty() || !root().son_[1]) return end();
\* else return iterator(root().son_[1].get());      then right is destroyed
EraseResult(h, t) ==
    Ret(DestroyTree(h, DT1),
        IF h.f # "ok" THEN Nil
        ELSE IF empty(h, t) \/ h.son[root(h, t)][1] = Nil THEN t
        ELSE h.son[root(h, t)][1])

\* iterator erase(const_iterator first, const_iterator last); right is the
\* local tree DT1, the tree returned by split(first) is the temporary DT2.
eraseRange(h, t, first, last) ==
    IF h.f # "ok" THEN Ret(h, Nil)
    ELSE EraseResult(
             merge(DestroyTree(split(split(h, t, last, DT1), t, first, DT2),
                               DT2),
                   t, DT1),
             t)

EraseUpTo(nxt, t, pos) == eraseRange(nxt.h, t, pos, nxt.r)

\* iterator erase(const_iterator pos)
erase(h, t, pos) == EraseUpTo(Inc(h, pos), t, pos)

\* result->link(buildTree(...), dir)
LinkBuilt(b, n, d) == link(b.h, n, b.r, d)

\* buildTree(begin, end) for the elements xs, which are the elements
\* lo+1 .. lo+Len(xs) of the constructor's range; element x of that range
\* is placed in the node base + x.  r is the root built.
RECURSIVE buildTree(_, _, _, _)
buildTree(h, xs, lo, base) ==
    IF Len(xs) = 0 THEN Ret(h, Nil)
    ELSE IF Len(xs) = 1
    THEN Ret(NewNode(h, base + lo + 1, xs[1]), base + lo + 1)
    ELSE Ret(LinkBuilt(
                 buildTree(
                     LinkBuilt(
                         buildTree(NewNode(h, base + lo + (Len(xs) \div 2) + 1,
                                           xs[(Len(xs) \div 2) + 1]),
                                   SubSeq(xs, 1, Len(xs) \div 2), lo, base),
                         base + lo + (Len(xs) \div 2) + 1, 0),
                     SubSeq(xs, (Len(xs) \div 2) + 2, Len(xs)),
                     lo + (Len(xs) \div 2) + 1, base),
                 base + lo + (Len(xs) \div 2) + 1, 1),
             base + lo + (Len(xs) \div 2) + 1)

\* SplayTree(ForwardIterator begin, ForwardIterator end)
construct(h, t, xs, base) == LinkBuilt(buildTree(h, xs, 0, base), t, 0)

\* ------------------------------------------------- what a caller observes
\* for (auto i = begin(); i != end(); ++i): the nodes visited, in order.
\* r is that sequence, h the heap afterwards (the loop pushes flags down).
RECURSIVE WalkFwd(_, _, _, _)
RECURSIVE WalkFwdFrom(_, _, _)
WalkFwd(h, t, n, acc) ==
    IF n = t \/ h.f # "ok" \/ Len(acc) > MaxNodes THEN Ret(h, acc)
    ELSE WalkFwdFrom(Inc(h, n), t, Append(acc, n))

WalkFwdFrom(i, t, acc) == WalkFwd(i.h, t, i.r, acc)

IterateFwd(h, t) == WalkFwdFrom(begin(h, t), t, <<>>)

\* for (auto r = rbegin(); r != rend(); ++r): std::reverse_iterator holds an
\* Iterator `current`, rend() is reverse_iterator(begin()), *r is *--copy
\* and ++r is --current.
RECURSIVE WalkBwd(_, _, _, _)
RECURSIVE WalkBwdCompared(_, _, _, _)
RECURSIVE WalkBwdDeref(_, _, _, _)
RECURSIVE WalkBwdNext(_, _, _)
WalkBwd(h, t, cur, acc) == WalkBwdCompared(begin(h, t), t, cur, acc)

\* r != rend(), b being the begin() inside rend()
WalkBwdCompared(b, t, cur, acc) ==
    IF cur = b.r \/ b.h.f # "ok" \/ Len(acc) > MaxNodes THEN Ret(b.h, acc)
    ELSE WalkBwdDeref(Dec(b.h, cur), t, cur, acc)

\* *r gave deref.r; ++r
WalkBwdDeref(deref, t, cur, acc) ==
    WalkBwdNext(Dec(deref.h, cur), t, Append(acc, deref.r))

WalkBwdNext(nx, t, acc) == WalkBwd(nx.h, t, nx.r, acc)

IterateBwd(h, t) == WalkBwd(h, t, t, <<>>)

\* std::next(i, j)
RECURSIVE Advance(_, _)
Advance(i, j) ==
    IF j = 0 THEN i ELSE Advance(Inc(i.h, i.r), j - 1)

\* std::next(begin(), j)
nth(h, t, j) == Advance(begin(h, t), j)

\* The dummy_ reached from n through dad_: the tree n is an iterator of.
RECURSIVE Owner(_, _)
Owner(h, n) ==
    IF n = Nil THEN Nil
    ELSE IF h.dad[n] = Nil THEN Nil
    ELSE IF h.dad[n] = n THEN n
    ELSE Owner(h, h.dad[n])

Nodes(h, t) == IterateFwd(h, t).r
DataOf(h, ns) == [x \in 1..Len(ns) |-> h.data[ns[x]]]
Contents(h, t) == DataOf(h, Nodes(h, t))
Mirror(h, t) == DataOf(h, IterateBwd(h, t).r)
Iterated(i) == DataOf(i.h, i.r)

\* 0-based rank of the position an iterator refers to; size() for end().
IndexIn(ns, n) ==
    IF \E x \in 1..Len(ns) : ns[x] = n
    THEN (CHOOSE x \in 1..Len(ns) : ns[x] = n) - 1
    ELSE Len(ns)
Pos(h, n) == IF Owner(h, n) = Nil THEN -1 ELSE IndexIn(Nodes(h, Owner(h, n)), n)

\* ------------------------------------------------- the reference list model
Min(a, b) == IF a < b THEN a ELSE b
Take(s, n) == SubSeq(s, 1, Min(n, Len(s)))
Drop(s, n) == SubSeq(s, Min(n, Len(s)) + 1, Len(s))
Rev(s) == [x \in 1..Len(s) |-> s[Len(s) + 1 - x]]
ListReverse(s, a, b) == Take(s, a) \o Rev(Drop(Take(s, b), a)) \o Drop(s, b)
ListInsert(s, a, v) == Take(s, a) \o <<v>> \o Drop(s, a)
ListErase(s, a, b) == Take(s, a) \o Drop(s, b)

\* ------------------------------------------------------------------ state
VARIABLES
    heap,    \* the Node objects: [son, dad, sz, rev, data, f]
    it,      \* the iterators the caller holds: node_ of each, Nil if invalid
    last,    \* the last public call: its arguments, what the caller saw
             \* before it, and what it returned
    ref,     \* the reference list of each user tree
    steps    \* number of public calls made

vars == <<heap, it, last, ref, steps>>

Slots == 1..2

EmptyHeap ==
    [son |-> [n \in Ids |-> NoSons],
     dad |-> [n \in Ids |-> IF n \in Dummies THEN n ELSE Nil],
     sz |-> [n \in Ids |-> IF n \in Dummies THEN 1 ELSE 0],
     rev |-> [n \in Ids |-> FALSE],
     data |-> [n \in Ids |-> 0],
     f |-> "ok"]

Iota(lo, n) == [x \in 1..n |-> lo + x]

\* The heap on entry of a call: the exception of the previous call was
\* handled by the caller.
H0 == [heap EXCEPT !.f = "ok"]

\* fresh[x]: iterator x was obtained from begin() / end() by stepping, and
\* only iterator steps were made since.
\* kept[x]: the same, with mutable at() calls allowed in between as well.
\* turned[x]: iterator x refers to an element, was obtained by stepping, and
\* only valid reverse() calls on its tree were made since, at least one;
\* wasTurned is turned as it was before the call.
Call(op, t, u, i, j, k, valid, ret, out) ==
    [op |-> op, t |-> t, u |-> u, i |-> i, j |-> j, k |-> k,
     valid |-> valid, ret |-> ret, out |-> out,
     pre |-> [x \in Trees |-> Contents(H0, x)],
     preN |-> [x \in Trees |-> Nodes(H0, x)],
     preIt |-> it,
     prePos |-> [x \in Slots |-> Pos(H0, it[x])],
     preOwn |-> [x \in Slots |-> Owner(H0, it[x])],
     h0 |-> H0,
     fresh |-> [x \in Slots |->
                  IF op \in {"nth", "end"} /\ k = x THEN TRUE
                  ELSE op \in {"nth", "end", "inc", "dec"} /\ last.fresh[x]],
     kept |-> [x \in Slots |->
                 IF op \in {"nth", "end"} /\ k = x THEN TRUE
                 ELSE /\ op \in {"nth", "end", "inc", "dec", "at", "atInc",
                                 "atDec"}
                      /\ last.kept[x]],
     turned |-> [x \in Slots |->
                   /\ op = "reverse" /\ valid
                   /\ it[x] \in NodeIds /\ Owner(H0, it[x]) = t
                   /\ (last.fresh[x] \/ last.turned[x])],
     wasTurned |-> last.turned]

\* An iterator whose node was destroyed is invalid from then on.
Surviving(h, its) ==
    [x \in Slots |-> IF its[x] # Nil /\ h.dad[its[x]] = Nil THEN Nil ELSE its[x]]

Running == steps < MaxSteps /\ heap.f # "ub"

Done(h, its, rec, rf) ==
    /\ heap' = h
    /\ it' = Surviving(h, its)
    /\ last' = rec
    /\ ref' = rf
    /\ steps' = steps + 1

Init ==
    \E n \in 0..MaxNodes : \E m \in 0..(MaxNodes - n) :
        /\ heap = construct(construct(EmptyHeap, DA, Iota(0, n), 0),
                            DB, Iota(n, m), n)
        /\ it = [x \in Slots |-> Nil]
        /\ ref = [x \in Trees |-> IF x = DA THEN Iota(0, n) ELSE Iota(n, m)]
        /\ last = [op |-> "init", t |-> Nil, u |-> Nil, i |-> 0, j |-> 0,
                   k |-> 0, valid |-> TRUE, ret |-> 0, out |-> <<>>,
                   pre |-> [x \in Trees |-> <<>>],
                   preN |-> [x \in Trees |-> <<>>],
                   preIt |-> [x \in Slots |-> Nil],
                   prePos |-> [x \in Slots |-> -1],
                   preOwn |-> [x \in Slots |-> Nil],
                   h0 |-> EmptyHeap,
                   fresh |-> [x \in Slots |-> FALSE],
                   kept |-> [x \in Slots |-> FALSE],
                   turned |-> [x \in Slots |-> FALSE],
                   wasTurned |-> [x \in Slots |-> FALSE]]
        /\ steps = 0

\* ---------------------------------------------------------------- actions
\* t.at(i)
At(t, i) ==
    /\ Running
    /\ \E r \in {at(H0, t, i)} :
           Done(r.h, it, Call("at", t, Nil, i, 0, 0, i < size(H0, t), r.r, <<>>),
                ref)

\* static_cast<const SplayTree&>(t).at(i)
AtConst(t, i) ==
    /\ Running
    /\ \E r \in {atConst(H0, t, i)} :
           Done(r.h, it,
                Call("atConst", t, Nil, i, 0, 0, i < size(H0, t), r.r, <<>>),
                ref)

\* u = t.split(i), u an empty tree
SplitIndex(t, u, i) ==
    /\ Running
    /\ u # t /\ empty(H0, u)
    /\ Done(splitIndex(H0, t, i, u), it,
            Call("split", t, u, i, 0, 0, i <= size(H0, t), 0, <<>>),
            IF i <= size(H0, t)
            THEN [ref EXCEPT ![t] = Take(ref[t], i), ![u] = Drop(ref[t], i)]
            ELSE ref)

\* u = t.split(it[k]), u an empty tree, it[k] an iterator of t
SplitIter(t, u, k) ==
    /\ Running
    /\ u # t /\ empty(H0, u)
    /\ it[k] # Nil /\ Owner(H0, it[k]) = t
    /\ \E p \in {Pos(H0, it[k])} :
           Done(split(H0, t, it[k], u), it,
                Call("splitIter", t, u, p, 0, k, TRUE, 0, <<>>),
                [ref EXCEPT ![t] = Take(ref[t], p), ![u] = Drop(ref[t], p)])

\* t.merge(std::move(u))
Merge(t, u) ==
    /\ Running
    /\ u # t
    /\ Done(merge(H0, t, u), it,
            Call("merge", t, u, 0, 0, 0, TRUE, 0, <<>>),
            [ref EXCEPT ![t] = ref[t] \o ref[u], ![u] = <<>>])

\* t.reverse(i, j)
Reverse(t, i, j) ==
    /\ Running
    /\ Done(reverse(H0, t, i, j), it,
            Call("reverse", t, Nil, i, j, 0, i <= j /\ j <= size(H0, t), 0,
                 <<>>),
            IF i <= j /\ j <= size(H0, t)
            THEN [ref EXCEPT ![t] = ListReverse(ref[t], i, j)]
            ELSE ref)

\* t.insert(it[k], v), it[k] an iterator of t
Insert(t, k, v) ==
    /\ Running
    /\ FreeIds(H0) # {}
    /\ it[k] # Nil /\ Owner(H0, it[k]) = t
    /\ \E p \in {Pos(H0, it[k])} : \E r \in {insert(H0, t, it[k], v)} :
           Done(r.h, it, Call("insert", t, Nil, p, v, k, TRUE, r.r, <<>>),
                [ref EXCEPT ![t] = ListInsert(ref[t], p, v)])

\* t.erase(it[k]), it[k] an iterator of t
Erase(t, k) ==
    /\ Running
    /\ it[k] # Nil /\ Owner(H0, it[k]) = t
    /\ \E p \in {Pos(H0, it[k])} : \E r \in {erase(H0, t, it[k])} :
           Done(r.h, it,
                Call("erase", t, Nil, p, p + 1, k, it[k] # t, r.r, <<>>),
                IF it[k] # t
                THEN [ref EXCEPT ![t] = ListErase(ref[t], p, p + 1)]
                ELSE ref)

\* t.erase(it[k1], it[k2]), both iterators of t, it[k1] not after it[k2]
EraseRange(t, k1, k2) ==
    /\ Running
    /\ it[k1] # Nil /\ Owner(H0, it[k1]) = t
    /\ it[k2] # Nil /\ Owner(H0, it[k2]) = t
    /\ \E p \in {Pos(H0, it[k1])} : \E q \in {Pos(H0, it[k2])} :
           /\ p <= q
           /\ \E r \in {eraseRange(H0, t, it[k1], it[k2])} :
                  Done(r.h, it,
                       Call("eraseRange", t, Nil, p, q, k1, TRUE, r.r, <<>>),
                       [ref EXCEPT ![t] = ListErase(ref[t], p, q)])

\* t.swap(u)
Swap(t, u) ==
    /\ Running
    /\ u # t
    /\ Done(swap(H0, t, u), it, Call("swap", t, u, 0, 0, 0, TRUE, 0, <<>>),
            [ref EXCEPT ![t] = ref[u], ![u] = ref[t]])

\* it[k] = std::next(t.begin(), j)
Nth(k, t, j) ==
    /\ Running
    /\ \E r \in {nth(H0, t, j)} :
           Done(r.h, [it EXCEPT ![k] = r.r],
                Call("nth", t, Nil, j, 0, k, TRUE, r.r, <<>>), ref)

\* it[k] = t.end()
End(k, t) ==
    /\ Running
    /\ Done(H0, [it EXCEPT ![k] = end(H0, t).r],
            Call("end", t, Nil, 0, 0, k, TRUE, t, <<>>), ref)

\* ++it[k]
Next(k) ==
    /\ Running
    /\ it[k] # Nil
    /\ \E r \in {Inc(H0, it[k])} :
           Done(r.h, [it EXCEPT ![k] = r.r],
                Call("inc", Owner(H0, it[k]), Nil, 0, 0, k,
                     it[k] \notin Dummies, r.r, <<>>), ref)

\* --it[k]
Prev(k) ==
    /\ Running
    /\ it[k] # Nil
    /\ \E r \in {Dec(H0, it[k])} :
           Done(r.h, [it EXCEPT ![k] = r.r],
                Call("dec", Owner(H0, it[k]), Nil, 0, 0, k,
                     Pos(H0, it[k]) > 0, r.r, <<>>), ref)

\* for (auto i = t.begin(); i != t.end(); ++i) out.push_back(*i);
Iterate(t) ==
    /\ Running
    /\ \E r \in {IterateFwd(H0, t)} :
           Done(r.h, it,
                Call("iterate", t, Nil, 0, 0, 0, TRUE, 0, Iterated(r)), ref)

\* for (auto i = t.rbegin(); i != t.rend(); ++i) out.push_back(*i);
IterateRev(t) ==
    /\ Running
    /\ \E r \in {IterateBwd(H0, t)} :
           Done(r.h, it,
                Call("iterateRev", t, Nil, 0, 0, 0, TRUE, 0, Iterated(r)), ref)

\* u = t.split(i); t.merge(std::move(u));  with u an empty tree
SplitMerge(t, u, i) ==
    /\ Running
    /\ u # t /\ empty(H0, u)
    /\ i <= size(H0, t)
    /\ Done(merge(splitIndex(H0, t, i, u), t, u), it,
            Call("splitMerge", t, u, i, 0, 0, TRUE, 0, <<>>), ref)

\* t.reverse(i, j); t.reverse(i, j);
ReverseTwice(t, i, j) ==
    /\ Running
    /\ i <= j /\ j <= size(H0, t)
    /\ Done(reverse(reverse(H0, t, i, j), t, i, j), it,
            Call("reverseTwice", t, Nil, i, j, 0, TRUE, 0, <<>>), ref)

\* t.at(i); t.at(j); ++it[k];   it[k] an iterator to an element of t
AtInc(t, i, j, k) ==
    /\ Running
    /\ it[k] \in NodeIds /\ Owner(H0, it[k]) = t
    /\ i < size(H0, t) /\ j < size(H0, t)
    /\ \E r \in {Inc(at(at(H0, t, i).h, t, j).h, it[k])} :
           Done(r.h, [it EXCEPT ![k] = r.r],
                Call("atInc", t, Nil, i, j, k, TRUE, r.r, <<>>), ref)

\* t.at(i); t.at(j); --it[k];   it[k] an iterator to an element of t
AtDec(t, i, j, k) ==
    /\ Running
    /\ it[k] \in NodeIds /\ Owner(H0, it[k]) = t
    /\ i < size(H0, t) /\ j < size(H0, t)
    /\ \E r \in {Dec(at(at(H0, t, i).h, t, j).h, it[k])} :
           Done(r.h, [it EXCEPT ![k] = r.r],
                Call("atDec", t, Nil, i, j, k, TRUE, r.r, <<>>), ref)

NextStep ==
    \/ \E t \in Trees : \E i \in 0..(size(H0, t) + 1) : At(t, i)
    \/ \E t \in Trees : \E i \in 0..(size(H0, t) + 1) : AtConst(t, i)
    \/ \E t \in Trees, u \in Trees : \E i \in 0..(size(H0, t) + 1) :
           SplitIndex(t, u, i)
    \/ \E t \in Trees, u \in Trees, k \in Slots : SplitIter(t, u, k)
    \/ \E t \in Trees, u \in Trees : Merge(t, u)
    \/ \E t \in Trees : \E i \in 0..(size(H0, t) + 2) :
           \E j \in 0..(size(H0, t) + 1) : Reverse(t, i, j)
    \/ \E t \in Trees, k \in Slots, v \in InsertVals : Insert(t, k, v)
    \/ \E t \in Trees, k \in Slots : Erase(t, k)
    \/ \E t \in Trees, k1 \in Slots, k2 \in Slots : EraseRange(t, k1, k2)
    \/ Swap(DA, DB)
    \/ \E k \in Slots, t \in Trees : \E j \in 0..size(H0, t) : Nth(k, t, j)
    \/ \E k \in Slots, t \in Trees : End(k, t)
    \/ \E k \in Slots : Next(k)
    \/ \E k \in Slots : Prev(k)
    \/ \E t \in Trees : Iterate(t)
    \/ \E t \in Trees : IterateRev(t)
    \/ \E t \in Trees, u \in Trees : \E i \in 0..size(H0, t) :
           SplitMerge(t, u, i)
    \/ \E t \in Trees : \E i, j \in 0..size(H0, t) : ReverseTwice(t, i, j)
    \/ \E t \in Trees, k \in Slots : \E i, j \in 0..size(H0, t) :
           AtInc(t, i, j, k)
    \/ \E t \in Trees, k \in Slots : \E i, j \in 0..size(H0, t) :
           AtDec(t, i, j, k)

Spec == Init /\ [][NextStep]_vars

\* ------------------------------------------------------------------ claims
\* What the caller of the last call sees afterwards.
Ok == heap.f = "ok"
Now(t) == Contents([heap EXCEPT !.f = "ok"], t)
Before(t) == last.pre[t]
SizesAgree == \A x \in Trees : size(heap, x) = Len(Now(x))
OthersKept(ts) == \A x \in Trees \ ts : Now(x) = Before(x)
PendingFlag(h) == \E n \in NodeIds : h.dad[n] # Nil /\ h.rev[n]

\* C1: after any sequence of public calls with in-range arguments, forward
\* iteration of every tree yields the reference list, reverse iteration its
\* mirror (and the process is alive to iterate).
C1_InOrderFidelity ==
    last.valid =>
        /\ heap.f # "ub"
        /\ \A x \in Trees : /\ Now(x) = ref[x]
                            /\ Mirror([heap EXCEPT !.f = "ok"], x) = Rev(ref[x])

\* C2: the mutable at(i), 0 <= i < size(), returns the element of rank i and
\* leaves the sequence and the size of every tree as they were.
C2_AtReturnsRank ==
    (last.op = "at" /\ last.valid) =>
        /\ Ok
        /\ last.ret = Before(last.t)[last.i + 1]
        /\ \A x \in Trees : Now(x) = Before(x)
        /\ SizesAgree

\* C2 witness: at(i) with i > 0 on a tree of three elements that had a
\* pending reversal flag, and the accessed node was not the root before.
C2_Witness ==
    /\ last.op = "at" /\ last.valid /\ last.i > 0
    /\ Len(Before(last.t)) = 3
    /\ PendingFlag(last.h0)
    /\ root(last.h0, last.t) # root(heap, last.t)
    /\ Ok /\ last.ret = Before(last.t)[last.i + 1]

\* C3: split(i), 0 <= i <= size(), leaves [0,i) in the receiver and returns
\* [i,size()), also for i = 0, i = size() and the empty tree.
C3_SplitIndex ==
    (last.op = "split" /\ last.valid) =>
        /\ Ok
        /\ Now(last.t) = Take(Before(last.t), last.i)
        /\ Now(last.u) = Drop(Before(last.t), last.i)

\* C4: split(it), it any iterator of the tree (begin(), end() and the empty
\* tree included), leaves the elements before it in the receiver and
\* returns the element at it and everything after it.
C4_SplitIterator ==
    last.op = "splitIter" =>
        /\ Ok
        /\ Now(last.t) = Take(Before(last.t), last.i)
        /\ Now(last.u) = Drop(Before(last.t), last.i)

\* C5: A.merge(B), A and B distinct, leaves A's sequence followed by B's in
\* A and leaves B empty with size 0.
C5_Merge ==
    last.op = "merge" =>
        /\ Ok
        /\ Now(last.t) = Before(last.t) \o Before(last.u)
        /\ Now(last.u) = <<>>
        /\ empty(heap, last.u) /\ size(heap, last.u) = 0
        /\ size(heap, last.t) = Len(Before(last.t)) + Len(Before(last.u))

\* C5 witness: both trees non-empty, a reversal flag pending in the
\* argument tree, and the receiver's last element was not its root.
C5_Witness ==
    /\ last.op = "merge"
    /\ Len(Before(last.t)) >= 2 /\ Len(Before(last.u)) >= 1
    /\ last.h0.rev[root(last.h0, last.u)]
    /\ root(last.h0, last.t) # root(heap, last.t)
    /\ Ok /\ Now(last.t) = Before(last.t) \o Before(last.u)

\* C6: R = T.split(i) followed by T.merge(R), 0 <= i <= size(), restores
\* T's sequence and size and leaves R empty.
C6_SplitMergeRoundTrip ==
    last.op = "splitMerge" =>
        /\ Ok
        /\ Now(last.t) = Before(last.t)
        /\ size(heap, last.t) = Len(Before(last.t))
        /\ empty(heap, last.u)

\* C7: reverse(first,last), 0 <= first <= last <= size(), completes without
\* fault, reverses the elements of [first,last) and leaves the rest and the
\* size unchanged.
C7_Reverse ==
    (last.op = "reverse" /\ last.valid) =>
        /\ Ok
        /\ Now(last.t) = ListReverse(Before(last.t), last.i, last.j)
        /\ size(heap, last.t) = Len(Before(last.t))

\* C8: reverse(a,b) called twice with the same valid bounds restores the
\* sequence of the whole tree.
C8_ReverseInvolution ==
    last.op = "reverseTwice" =>
        /\ Ok
        /\ Now(last.t) = Before(last.t)

\* C9: insert(pos, v), pos any valid iterator of the tree (end() included),
\* puts v immediately before pos, keeps the other elements in order, adds
\* one to size() and returns an iterator to v at that position.
C9_Insert ==
    last.op = "insert" =>
        /\ Ok
        /\ Now(last.t) = ListInsert(Before(last.t), last.i, last.j)
        /\ size(heap, last.t) = Len(Before(last.t)) + 1
        /\ heap.data[last.ret] = last.j
        /\ Pos(heap, last.ret) = last.i

\* C10: erase(first,last) with first strictly before last removes exactly
\* [first,last); erase(pos) removes exactly the element at pos; size()
\* decreases by the number of removed elements.
C10_Erase ==
    (last.op \in {"erase", "eraseRange"} /\ last.valid /\ last.i < last.j) =>
        /\ Ok
        /\ Now(last.t) = ListErase(Before(last.t), last.i, last.j)
        /\ size(heap, last.t) = Len(Before(last.t)) - (last.j - last.i)

\* C11: the iterator erase returns refers to the element formerly at last
\* (now at the erasure point), and is end() exactly when the erased range
\* reached the end of the sequence or the tree became empty.
C11_EraseReturn ==
    (last.op \in {"erase", "eraseRange"} /\ last.valid /\ last.i < last.j) =>
        /\ Ok
        /\ IF last.j = Len(Before(last.t))
           THEN last.ret = last.t
           ELSE /\ last.ret \in NodeIds
                /\ heap.data[last.ret] = Before(last.t)[last.j + 1]
                /\ Pos(heap, last.ret) = last.i

\* The nodes owned through the son_ links below n, n included.
RECURSIVE Subtree(_, _)
Subtree(h, n) ==
    IF n = Nil THEN {}
    ELSE {n} \cup Subtree(h, h.son[n][0]) \cup Subtree(h, h.son[n][1])

Alive == heap.f # "ub"
Live(h) == {n \in NodeIds : h.dad[n] # Nil}

Handled == [heap EXCEPT !.f = "ok"]
Untouched == Handled = last.h0 /\ \A x \in Trees : Now(x) = Before(x)

\* C13: at(i) with i >= size() and reverse(first,last) with first <= last
\* and last > size() signal the out-of-range condition and leave sequence,
\* size, shape and pending flags exactly as they were (empty tree included).
C13_OutOfRange ==
    (\/ last.op \in {"at", "atConst"} /\ last.i >= Len(Before(last.t))
     \/ /\ last.op = "reverse" /\ last.i <= last.j
        /\ last.j > Len(Before(last.t))) =>
        /\ heap.f = "out_of_range"
        /\ Untouched

\* C13 witness: reverse(first, size() + 1) on a non-empty tree that carries
\* a pending reversal flag was refused.
C13_Witness ==
    /\ last.op = "reverse" /\ last.i <= last.j
    /\ last.j > Len(Before(last.t)) /\ Len(Before(last.t)) >= 2
    /\ PendingFlag(last.h0)
    /\ heap.f = "out_of_range" /\ Handled = last.h0

\* C14: reverse(first,last) with first > last signals the invalid-range
\* condition, which is not the out-of-range condition and wins over it when
\* last > size() as well, and mutates nothing.
C14_InvalidRange ==
    (last.op = "reverse" /\ last.i > last.j) =>
        /\ heap.f = "invalid_range"
        /\ heap.f # "out_of_range"
        /\ Untouched

\* C14 witness: first > last > size() on a non-empty tree with a pending
\* flag: both conditions apply and the invalid-range one was signalled.
C14_Witness ==
    /\ last.op = "reverse" /\ last.i > last.j
    /\ last.j > Len(Before(last.t)) /\ Len(Before(last.t)) >= 1
    /\ PendingFlag(last.h0)
    /\ heap.f = "invalid_range" /\ Handled = last.h0

\* The iterator the last step was applied to, and where it was.
Stepped == last.op \in {"inc", "dec"} /\ last.fresh[last.k]
WasAt == last.prePos[last.k]
WasIn == last.preOwn[last.k]

\* C15: ++ on end() faults and -- on begin() faults, also on the empty tree
\* where begin() == end(); on every other iterator obtained by stepping from
\* begin() or end(), ++ and -- succeed and move to the logical successor /
\* predecessor.
C15_IteratorBounds ==
    Stepped =>
        /\ \A x \in Trees : Now(x) = Before(x)
        /\ IF last.op = "inc"
           THEN IF last.preIt[last.k] = WasIn
                THEN heap.f = "inc_end"
                ELSE /\ Ok
                     /\ Pos(heap, it[last.k]) = WasAt + 1
                     /\ Owner(heap, it[last.k]) = WasIn
           ELSE IF WasAt = 0
                THEN heap.f = "dec_begin"
                ELSE /\ Ok
                     /\ Pos(heap, it[last.k]) = WasAt - 1
                     /\ Owner(heap, it[last.k]) = WasIn

\* C15 witness: -- from end() of a tree of three elements whose reversal
\* flag was still pending reached the last element.
C15_Witness ==
    /\ Stepped /\ last.op = "dec" /\ WasAt = 3
    /\ Len(Before(last.t)) = 3
    /\ PendingFlag(last.h0)
    /\ Ok /\ Pos(heap, it[last.k]) = 2
    /\ heap.data[it[last.k]] = Before(last.t)[3]

\* An iterator to an element, obtained by stepping and held across mutable
\* at() calls only, has just been stepped (with or without at() calls
\* immediately before the step).
SteppedAfterAt ==
    /\ last.op \in {"inc", "dec", "atInc", "atDec"}
    /\ last.kept[last.k]
    /\ last.preIt[last.k] \in NodeIds

\* C16: an iterator obtained from begin() / end() by stepping and referring
\* to element x still refers to x after any number of mutable at(j) calls:
\* the calls leave its rank and payload as they were, ++ then reaches the
\* successor of x (or end()) and -- its predecessor.
C16_IteratorsSurviveSplay ==
    /\ (last.op = "at" /\ last.valid) =>
           \A x \in Slots :
               (last.kept[x] /\ last.preIt[x] # Nil) =>
                   /\ it[x] = last.preIt[x]
                   /\ Pos(heap, it[x]) = last.prePos[x]
                   /\ Owner(heap, it[x]) = last.preOwn[x]
    /\ SteppedAfterAt =>
           /\ \A x \in Trees : Now(x) = Before(x)
           /\ IF last.op \in {"inc", "atInc"}
              THEN /\ Ok
                   /\ Pos(heap, it[last.k]) = WasAt + 1
                   /\ Owner(heap, it[last.k]) = WasIn
              ELSE IF WasAt = 0
                   THEN heap.f = "dec_begin"
                   ELSE /\ Ok
                        /\ Pos(heap, it[last.k]) = WasAt - 1
                        /\ Owner(heap, it[last.k]) = WasIn

\* C16 witness: in a tree of three elements with a pending reversal flag,
\* at() calls changed the root and the iterator held across them was then
\* stepped to its successor.
C16_Witness ==
    /\ last.op = "atInc" /\ last.kept[last.k]
    /\ Len(Before(last.t)) = 3
    /\ \E n \in NodeIds : last.h0.dad[n] # Nil /\ last.h0.rev[n]
                           /\ Owner(last.h0, n) = last.t
    /\ root(last.h0, last.t) # root(heap, last.t)
    /\ Ok /\ Pos(heap, it[last.k]) = WasAt + 1

ReadOnlyOps == {"atConst", "nth", "end", "inc", "dec", "iterate", "iterateRev"}

\* C17: the const at(i), begin(), end() and iterator ++ / -- perform no
\* rotation: the root, every node's parent, every subtree_size and the
\* logical sequence are as before; only pending flags may have been pushed.
C17_ReadOnlyNoRestructure ==
    last.op \in ReadOnlyOps =>
        /\ heap.dad = last.h0.dad
        /\ heap.sz = last.h0.sz
        /\ heap.data = last.h0.data
        /\ \A x \in Trees : /\ root(heap, x) = root(last.h0, x)
                            /\ Now(x) = Before(x)

\* C17 witness: a const at(i) found an element that is not the root, in a
\* tree of three elements, and pushed a pending flag on its way.
C17_Witness ==
    /\ last.op = "atConst" /\ last.valid /\ Ok
    /\ Len(Before(last.t)) = 3
    /\ heap.rev # last.h0.rev
    /\ last.ret # heap.data[root(heap, last.t)]
    /\ last.ret = Before(last.t)[last.i + 1]
    /\ heap.dad = last.h0.dad

\* The owning links to n: the slots son_[d] of p that hold n.
OwningLinks(h, n) == {pd \in Ids \X {0, 1} : h.son[pd[1]][pd[2]] = n}

\* Following dad_ from n reaches a sentinel within fuel steps.
RECURSIVE ClimbsToSentinel(_, _, _)
ClimbsToSentinel(h, n, fuel) ==
    IF h.dad[n] = n THEN n \in Dummies
    ELSE IF fuel = 0 \/ h.dad[n] = Nil THEN FALSE
    ELSE ClimbsToSentinel(h, h.dad[n], fuel - 1)

\* C18: after every public operation every non-sentinel node is the child
\* of exactly one node, the one its dad_ names; a root's dad_ is the
\* sentinel of the tree that owns it; each sentinel parents itself, has no
\* right child and no pending-reverse flag; child links from a sentinel
\* never revisit a node.
C18_OwnershipLinkage ==
    Alive =>
        /\ \A n \in Live(heap) :
               /\ heap.dad[n] \in Ids /\ heap.dad[n] # n
               /\ Cardinality(OwningLinks(heap, n)) = 1
               /\ \E d \in {0, 1} : heap.son[heap.dad[n]][d] = n
               /\ ClimbsToSentinel(heap, n, MaxNodes)
        /\ \A t \in Dummies :
               /\ heap.dad[t] = t
               /\ heap.son[t][1] = Nil
               /\ ~heap.rev[t]
               /\ OwningLinks(heap, t) = {}
               /\ root(heap, t) # Nil => heap.dad[root(heap, t)] = t
        /\ \A n \in NodeIds \ Live(heap) : OwningLinks(heap, n) = {}

\* C18 witness: a split has just handed the nodes after the cut to the
\* result tree; both trees are non-empty and each root hangs under the
\* sentinel of its own tree.
C18_Witness ==
    /\ last.op \in {"split", "splitIter"} /\ Ok
    /\ ~empty(heap, last.t) /\ size(heap, last.u) = 2
    /\ heap.dad[root(heap, last.t)] = last.t
    /\ heap.dad[root(heap, last.u)] = last.u
    /\ \A n \in Subtree(heap, root(heap, last.u)) : Owner(heap, n) = last.u

\* Number of dad_ links from n up to its sentinel: 1 for a root.
RECURSIVE Depth(_, _)
Depth(h, n) == IF h.dad[n] = n THEN 0 ELSE 1 + Depth(h, h.dad[n])

\* What one loop iteration of splay(u) is to take off the depth of u.
StepDrop(h, u) == IF isRoot(h, h.dad[u]) THEN 1 ELSE 2

\* Every loop iteration of splay(u) from h on takes u up by StepDrop.
RECURSIVE SplayDescends(_, _, _)
RECURSIVE StepChecked(_, _, _, _)
SplayDescends(h, t, u) ==
    isRoot(h, u) \/ StepChecked(h, t, u, SplayStep(h, t, u))
StepChecked(h, t, u, h1) ==
    /\ h1.f = "ok"
    /\ Depth(h1, u) = Depth(h, u) - StepDrop(h, u)
    /\ SplayDescends(h1, t, u)

\* splay(u) took h to h1: u is the sentinel's left child, same sequence.
SplayEnds(h, t, u, h1) ==
    /\ h1.f = "ok"
    /\ root(h1, t) = u /\ h1.dad[u] = t
    /\ Contents(h1, t) = Contents(h, t)
    /\ Subtree(h1, root(h1, t)) = Subtree(h, root(h, t))

\* C19: for every tree and every non-sentinel node u of it, each loop
\* iteration of splay(u) takes u up by one (zig) or two (zig-zig, zig-zag)
\* levels, splay(u) ends with u as the sentinel's left child and leaves the
\* sequence unchanged; after the mutable at(i) the root holds the element of
\* rank i.
C19_SplayToRoot ==
    Alive =>
        /\ \A t \in Trees : \A u \in Subtree(Handled, root(Handled, t)) :
               /\ SplayDescends(Handled, t, u)
               /\ SplayEnds(Handled, t, u, splay(Handled, t, u))
        /\ (last.op = "at" /\ last.valid) =>
               /\ Ok
               /\ heap.data[root(heap, last.t)] = Before(last.t)[last.i + 1]
               /\ Pos(heap, root(heap, last.t)) = last.i

\* C19 witness: at(i) has splayed to the root a node that was two levels
\* below it (a zig-zig or zig-zag iteration) in a tree with a pending flag.
C19_Witness ==
    /\ last.op = "at" /\ last.valid /\ Ok
    /\ Depth(last.h0, root(heap, last.t)) = 3
    /\ PendingFlag(last.h0)
    /\ heap.dad[root(heap, last.t)] = last.t
    /\ heap.data[root(heap, last.t)] = Before(last.t)[last.i + 1]

\* insert(): `while (p->son_[1]) p = p->son_[1].get();` reads the slots of
\* every p it visits; one of them has its reverse_ flag set.
RECURSIVE WalkRightFlagged(_, _)
WalkRightFlagged(h, p) ==
    h.rev[p] \/ (h.son[p][1] # Nil /\ WalkRightFlagged(h, h.son[p][1]))

\* insert(it, e) reads it.node_->son_[0] and then walks right from it: a
\* node whose slots it reads has its reverse_ flag set.
InsertReadsFlagged(h, n) ==
    h.rev[n] \/ (h.son[n][0] # Nil /\ WalkRightFlagged(h, h.son[n][0]))

\* operator++: `while (node_->whichSon()) node_ = node_->dad_;` reads the
\* slots of the dad_ of every node it visits; one of them is flagged.
RECURSIVE IncClimbFlagged(_, _)
IncClimbFlagged(h, n) ==
    h.rev[h.dad[n]] \/ (whichSon(h, n) /\ IncClimbFlagged(h, h.dad[n]))

\* operator--: `while (!node_->whichSon()) { node_ = node_->dad_; ... }`
RECURSIVE DecClimbFlagged(_, _)
DecClimbFlagged(h, n) ==
    \/ h.rev[h.dad[n]]
    \/ /\ ~whichSon(h, n) /\ h.dad[h.dad[n]] # h.dad[n]
       /\ DecClimbFlagged(h, h.dad[n])

\* operator++ / operator-- on node n, after node_->push(): the descent
\* pushes each node before reading it, the climb pushes nothing.
IncReadsFlagged(h, n) ==
    h.dad[n] # n /\ h.son[n][1] = Nil /\ IncClimbFlagged(h, n)
DecReadsFlagged(h, n) == h.son[n][0] = Nil /\ DecClimbFlagged(h, n)

\* C20: whenever findNode, rotate, splay, insert or an iterator step reads
\* a node's child slots (directly or through whichSon of its child) to make
\* an ordering-sensitive decision, that node's pending-reverse flag is clear.
\* findNode and splay push each node before they read it; stated for the
\* reads of insert and of the iterator steps.
C20_PushBeforeInspect ==
    /\ last.op = "insert" =>
           ~InsertReadsFlagged(last.h0, last.preIt[last.k])
    /\ last.op = "inc" =>
           ~IncReadsFlagged(push(last.h0, last.preIt[last.k]),
                            last.preIt[last.k])
    /\ last.op \in {"dec", "splitIter"} =>
           ~DecReadsFlagged(push(last.h0, last.preIt[last.k]),
                            last.preIt[last.k])

\* The faults of the internal operations: rotate() on the sentinel or on a
\* root, splay() on the sentinel.
InternalFaults == {"rotate_root", "splay_dummy"}

\* C21: no sequence of public operations called with valid indices and
\* valid iterators of the receiving tree invokes rotate() on the sentinel or
\* on a root, or splay() on the sentinel.
C21_InternalFaultsUnreachable ==
    heap.f \notin InternalFaults

\* C21 witness: a valid insert has splayed the new node from two levels
\* below the root with a zig-zig step (the former root is now a grandchild
\* of the new node) and no internal fault was raised.
C21_Witness ==
    /\ last.op = "insert" /\ last.valid /\ Ok
    /\ Len(Before(last.t)) = 2
    /\ root(heap, last.t) = last.ret
    /\ heap.dad[root(last.h0, last.t)] \notin {last.ret, last.t}
    /\ heap.dad[heap.dad[root(last.h0, last.t)]] = last.ret

\* C22: for every public operation that takes an index (at, split,
\* reverse) and every index value, also at or beyond size() and on an empty
\* tree, findNode never follows an absent child, and an index outside the
\* searchable range is reported as an out-of-range fault.
C22_RankSearchStaysInTree ==
    last.op \in {"at", "atConst", "split", "reverse"} =>
        /\ heap.f # "ub"
        /\ (~last.valid /\ ~(last.op = "reverse" /\ last.i > last.j)) =>
               heap.f = "out_of_range"

\* C23: erase(it, it) removes no element and leaves the sequence and
\* size() unchanged, for every iterator it of the tree, begin() and end()
\* included.
C23_EraseEmptyRange ==
    (last.op = "eraseRange" /\ last.i = last.j) =>
        /\ Ok
        /\ Now(last.t) = Before(last.t)
        /\ size(heap, last.t) = Len(Before(last.t))

\* Rank of the element of rank p after reverse(a, b).
Turn(p, a, b) == IF a <= p /\ p < b THEN a + b - 1 - p ELSE p

\* C24: an iterator referring to element x still dereferences to x after a
\* valid reverse(first,last) on its tree, ++ and -- then move to the
\* successor / predecessor of x in the new order, and erase(it) and
\* insert(it, v) act at the new position of x.
C24_IteratorsSurviveReverse ==
    /\ (last.op = "reverse" /\ Ok) =>
           \A x \in Slots :
               last.turned[x] =>
                   /\ it[x] = last.preIt[x]
                   /\ heap.data[it[x]] = last.h0.data[it[x]]
                   /\ Pos(heap, it[x]) = Turn(last.prePos[x], last.i, last.j)
    /\ (last.op \in {"inc", "dec", "erase", "insert"}
            /\ last.wasTurned[last.k]) =>
           CASE last.op = "inc" ->
                    /\ Ok
                    /\ Pos(heap, it[last.k]) = WasAt + 1
                    /\ Owner(heap, it[last.k]) = WasIn
             [] last.op = "dec" ->
                    IF WasAt = 0 THEN heap.f = "dec_begin"
                    ELSE /\ Ok
                         /\ Pos(heap, it[last.k]) = WasAt - 1
                         /\ Owner(heap, it[last.k]) = WasIn
             [] last.op = "erase" ->
                    /\ Ok
                    /\ Now(last.t) = ListErase(Before(last.t), WasAt, WasAt + 1)
             [] last.op = "insert" ->
                    /\ Ok
                    /\ Now(last.t) = ListInsert(Before(last.t), WasAt, last.j)

====
